---- MODULE Spec2Model ----
(***************************************************************************)
(* smb2mv: server-side move of one file on a CIFS/SMB2 mount.              *)
(* The model follows main() of smb2mv.c statement by statement: every      *)
(* system call is one step whose outcome (success or failure) is chosen    *)
(* nondeterministically, the file system is the three paths the program    *)
(* can touch, and a second client may create the destination between the   *)
(* stat and the open of open_dest.                                         *)
(***************************************************************************)
EXTENDS Integers, Sequences, FiniteSets, TLC

VARIABLES
    pc,          \* position in main / open_dest
    argc,        \* argument count of the run
    fs,          \* the file system: path -> [kind, data]
    fs0,         \* the file system when the run started
    srcFs,       \* f_type of the mount holding SRC
    dstFs,       \* f_type of the mount holding DST
    src_fd,      \* main's src_fd
    dst_fd,      \* main's dst_fd
    dst_path,    \* the path the destination descriptor was opened on
    dst_existed, \* whether that path existed when it was opened
    ret,         \* main's ret: <<>> while uninitialized, <<v>> once assigned
    exit,        \* the exit status: <<>> while running, <<code>> at exit
    heap,        \* the state of the three heap buffers
    uaf,         \* a freed buffer has been read
    trace,       \* the system calls issued so far, in order
    stderr,      \* the diagnostics written so far, in order
    envCreated   \* paths a concurrent client created during the run

vars == <<pc, argc, fs, fs0, srcFs, dstFs, src_fd, dst_fd, dst_path,
          dst_existed, ret, exit, heap, uaf, trace, stderr, envCreated>>

----------------------------------------------------------------------------
(* Bounds of the model *)

\* longest file content
MaxLen == 2
\* largest argument count tried
MaxArgc == 4
\* largest value an uninitialized int may be read as
MaxUninit == 2

----------------------------------------------------------------------------
(* Values *)

\* f_type is wider than 31 bits: a magic number is the pair of its 16-bit
\* halves <<high, low>>.
CIFS_SUPER_MAGIC == <<65363, 19778>>
SMB2_SUPER_MAGIC == <<65107, 19778>>
\* some other file system (ext4, 0xEF53)
OTHER_SUPER_MAGIC == <<0, 61267>>

FsTypes == {CIFS_SUPER_MAGIC, SMB2_SUPER_MAGIC, OTHER_SUPER_MAGIC}

Paths == {"SRC", "DST", "NEWDST"}

Bytes == {1, 2}

Contents == UNION {[1..n -> Bytes] : n \in 0..MaxLen}

NoFile == [kind |-> "none", data |-> <<>>]
Dir == [kind |-> "dir", data |-> <<>>]
Reg(c) == [kind |-> "reg", data |-> c]

Files == {NoFile, Dir} \cup {Reg(c) : c \in Contents}

Exists(f, p) == f[p].kind # "none"

\* One system call of the trace: the call, its target, whether it succeeded
\* and, for a failed stat or open of a missing path, that errno is ENOENT.
Sys(call, arg, ok) == [call |-> call, arg |-> arg, ok |-> ok, enoent |-> FALSE]

SysNoEnt(call, arg) == [call |-> call, arg |-> arg, ok |-> FALSE, enoent |-> TRUE]

\* The flags open_dest passes to open().
DestOpenFlags == {"O_CREAT", "O_WRONLY"}

\* Whether open(path, flags) succeeds: the kernel permits it (ok), the path
\* is not a directory, O_EXCL refuses an existing path and without O_CREAT
\* the path must exist.
OpenSucceeds(f, p, flags, ok) ==
    /\ ok
    /\ f[p].kind # "dir"
    /\ ("O_EXCL" \in flags => ~Exists(f, p))
    /\ ("O_CREAT" \notin flags => Exists(f, p))

\* The file system after a successful open(path, flags): O_CREAT creates an
\* empty regular file when the path is absent, O_TRUNC empties it.
AfterOpen(f, p, flags) ==
    IF ~Exists(f, p) /\ "O_CREAT" \in flags THEN [f EXCEPT ![p] = Reg(<<>>)]
    ELSE IF "O_TRUNC" \in flags THEN [f EXCEPT ![p] = Reg(<<>>)]
    ELSE f

\* CIFS_IOC_COPYCHUNK_FILE copies the whole source to offset 0 of the
\* target; bytes of the target beyond the source's length stay.
CopyChunk(s, d) == s \o SubSeq(d, Len(s) + 1, Len(d))

----------------------------------------------------------------------------
(* Initial states: any argument count, any file system, any mount types,   *)
(* ret not yet assigned.                                                   *)

Init ==
    /\ pc = "start"
    /\ argc \in 1..MaxArgc
    /\ fs \in [Paths -> Files]
    /\ fs["SRC"].kind # "dir"
    /\ (Exists(fs, "NEWDST") => fs["DST"].kind = "dir")
    /\ fs["NEWDST"].kind # "dir"
    /\ fs0 = fs
    /\ srcFs \in FsTypes
    /\ dstFs \in FsTypes
    /\ src_fd = "uninit"
    /\ dst_fd = "uninit"
    /\ dst_path = "none"
    /\ dst_existed = FALSE
    /\ ret = <<>>
    /\ exit = <<>>
    /\ heap = [src_file |-> "null", dst_file |-> "null", new_dst |-> "unalloc"]
    /\ uaf = FALSE
    /\ trace = <<>>
    /\ stderr = <<>>
    /\ envCreated = {}

----------------------------------------------------------------------------
(* main, lines 148-159: the argument check and the two xstrdup calls.      *)

\* Mutant: extra arguments are accepted.
UsageOk_AtLeast(n) == n >= 3

UsageOk(n) == n = 3

CheckArgs ==
    /\ pc = "start"
    /\ IF ~UsageOk(argc)
       THEN /\ stderr' = Append(stderr, "Usage")
            /\ pc' = "err_out"
            /\ UNCHANGED heap
       ELSE /\ heap' = [heap EXCEPT !.src_file = "live", !.dst_file = "live"]
            /\ pc' = "open_src"
            /\ UNCHANGED stderr
    /\ UNCHANGED <<argc, fs, fs0, srcFs, dstFs, src_fd, dst_fd, dst_path,
                   dst_existed, ret, exit, uaf, trace, envCreated>>

(* main, lines 161-166: open(src_file, O_RDWR).                            *)

\* Mutant below: the failure leaves by err_src_close.
\* Where main continues on the result of open(src_file): line 165 leaves by
\* err_out, past both closes.
AfterOpenSrc_WrongLabel(good) == IF good THEN "open_dest" ELSE "err_src_close"

AfterOpenSrc(good) == IF good THEN "open_dest" ELSE "err_out"

OpenSrc ==
    /\ pc = "open_src"
    /\ \E ok \in BOOLEAN :
         LET good == OpenSucceeds(fs, "SRC", {"O_RDWR"}, ok) IN
         /\ trace' = Append(trace, Sys("open", "SRC", good))
         /\ pc' = AfterOpenSrc(good)
         /\ IF good
            THEN /\ src_fd' = "open"
                 /\ UNCHANGED <<ret, stderr>>
            ELSE /\ src_fd' = "fail"
                 /\ ret' = <<1>>
                 /\ stderr' = Append(stderr, "failed to open")
    /\ UNCHANGED <<argc, fs, fs0, srcFs, dstFs, dst_fd, dst_path,
                   dst_existed, exit, heap, uaf, envCreated>>

(* open_dest, lines 113-115, 123-126 and 137-141: stat(dst) and the        *)
(* branches that open nothing; with main's lines 168-172 on failure.       *)

\* Mutant below: an existing non-directory is opened like a missing path.
\* What open_dest does on the result of stat, for the kind of file at dst;
\* statOk is FALSE when stat fails with an error other than ENOENT.
StatBranch_NoRefuse(statOk, kind) ==
    IF ~statOk THEN "stat_failed"
    ELSE IF kind = "dir" THEN "create_new_dst"
    ELSE "create_dst"

StatBranch(statOk, kind) ==
    IF ~statOk THEN "stat_failed"
    ELSE IF kind = "none" THEN "create_dst"
    ELSE IF kind = "dir" THEN "create_new_dst"
    ELSE "refuse"

OpenDestStat ==
    /\ pc = "open_dest"
    /\ \E statOk \in BOOLEAN :
         LET b == StatBranch(statOk, fs["DST"].kind) IN
         /\ trace' = Append(trace, IF b = "create_dst" THEN SysNoEnt("stat", "DST")
                                    ELSE Sys("stat", "DST", statOk))
         /\ CASE b = "stat_failed" ->
                   /\ stderr' = Append(stderr, "failed to create")
                   /\ dst_fd' = "fail"
                   /\ ret' = <<1>>
                   /\ pc' = "err_src_close"
              [] b = "refuse" ->
                   /\ stderr' = Append(stderr, "refusing to overwrite")
                   /\ dst_fd' = "fail"
                   /\ ret' = <<1>>
                   /\ pc' = "err_src_close"
              [] OTHER ->
                   /\ pc' = b
                   /\ UNCHANGED <<stderr, dst_fd, ret>>
    /\ UNCHANGED <<argc, fs, fs0, srcFs, dstFs, src_fd, dst_path,
                   dst_existed, exit, heap, uaf, envCreated>>

(* open_dest, lines 116-124: open(dst, O_CREAT | O_WRONLY, 0644) after     *)
(* stat reported ENOENT; with main's lines 168-172 on failure.             *)

CreateDst ==
    /\ pc = "create_dst"
    /\ \E ok \in BOOLEAN :
         LET good == OpenSucceeds(fs, "DST", DestOpenFlags, ok) IN
         /\ trace' = Append(trace, Sys("open", "DST", good))
         /\ IF good
            THEN /\ fs' = AfterOpen(fs, "DST", DestOpenFlags)
                 /\ dst_fd' = "open"
                 /\ dst_path' = "DST"
                 /\ dst_existed' = Exists(fs, "DST")
                 /\ pc' = "check_is_cifs"
                 /\ UNCHANGED <<ret, stderr>>
            ELSE /\ stderr' = Append(stderr, "failed to create")
                 /\ dst_fd' = "fail"
                 /\ ret' = <<1>>
                 /\ pc' = "err_src_close"
                 /\ UNCHANGED <<fs, dst_path, dst_existed>>
    /\ UNCHANGED <<argc, fs0, srcFs, dstFs, src_fd, exit, heap, uaf,
                   envCreated>>

(* open_dest, lines 126-136: DST is a directory; the path DST/basename(SRC)*)
(* is built, opened and freed, and on failure printed after the free.      *)

\* What line 135 can print: new_dst was freed at line 132, so the path in
\* the message is either still the old bytes or whatever the allocator left.
FreedPathDiags == {"failed to create", "failed to create (garbled path)"}

CreateNewDst ==
    /\ pc = "create_new_dst"
    /\ \E ok \in BOOLEAN, diag \in FreedPathDiags :
         LET good == OpenSucceeds(fs, "NEWDST", DestOpenFlags, ok) IN
         /\ trace' = Append(trace, Sys("open", "NEWDST", good))
         /\ heap' = [heap EXCEPT !.new_dst = "freed"]
         /\ IF good
            THEN /\ fs' = AfterOpen(fs, "NEWDST", DestOpenFlags)
                 /\ dst_fd' = "open"
                 /\ dst_path' = "NEWDST"
                 /\ dst_existed' = Exists(fs, "NEWDST")
                 /\ pc' = "check_is_cifs"
                 /\ UNCHANGED <<ret, stderr, uaf>>
            ELSE /\ stderr' = Append(stderr, diag)
                 /\ uaf' = TRUE
                 /\ dst_fd' = "fail"
                 /\ ret' = <<1>>
                 /\ pc' = "err_src_close"
                 /\ UNCHANGED <<fs, dst_path, dst_existed>>
    /\ UNCHANGED <<argc, fs0, srcFs, dstFs, src_fd, exit, envCreated>>

(* A second client creates a regular file at DST after open_dest's stat    *)
(* reported ENOENT and before its open.                                    *)

EnvCreateDst ==
    /\ pc = "create_dst"
    /\ ~Exists(fs, "DST")
    /\ \E c \in Contents : fs' = [fs EXCEPT !["DST"] = Reg(c)]
    /\ envCreated' = envCreated \cup {"DST"}
    /\ UNCHANGED <<pc, argc, fs0, srcFs, dstFs, src_fd, dst_fd, dst_path,
                   dst_existed, ret, exit, heap, uaf, trace, stderr>>

(* check_is_cifs, lines 78-106, and main's lines 174-177.                  *)

\* Mutant: the f_type comparison is dropped.
IsCifsMagic_Any(t) == TRUE

\* Mutant: SMB2_SUPER_MAGIC is not accepted.
IsCifsMagic_CifsOnly(t) == t = CIFS_SUPER_MAGIC

IsCifsMagic(t) == t = CIFS_SUPER_MAGIC \/ t = SMB2_SUPER_MAGIC

\* The result of check_is_cifs, the fstatfs calls it makes and the message
\* it prints, for the outcomes and f_types of the two fstatfs calls.
check_is_cifs(sOk, sType, dOk, dType) ==
    IF ~sOk
    THEN [ok |-> FALSE, calls |-> <<Sys("fstatfs", "src_fd", FALSE)>>,
          msg |-> <<"failed to stat source file system">>]
    ELSE IF ~IsCifsMagic(sType)
    THEN [ok |-> FALSE, calls |-> <<Sys("fstatfs", "src_fd", TRUE)>>,
          msg |-> <<"source file system is not CIFS/SMB2!">>]
    ELSE IF ~dOk
    THEN [ok |-> FALSE,
          calls |-> <<Sys("fstatfs", "src_fd", TRUE), Sys("fstatfs", "dst_fd", FALSE)>>,
          msg |-> <<"failed to stat destination file system">>]
    ELSE IF ~IsCifsMagic(dType)
    THEN [ok |-> FALSE,
          calls |-> <<Sys("fstatfs", "src_fd", TRUE), Sys("fstatfs", "dst_fd", TRUE)>>,
          msg |-> <<"destination file system is not CIFS/SMB2!">>]
    ELSE [ok |-> TRUE,
          calls |-> <<Sys("fstatfs", "src_fd", TRUE), Sys("fstatfs", "dst_fd", TRUE)>>,
          msg |-> <<>>]

CheckIsCifs ==
    /\ pc = "check_is_cifs"
    /\ \E sOk \in BOOLEAN, dOk \in BOOLEAN :
         LET r == check_is_cifs(sOk, srcFs, dOk, dstFs) IN
         /\ trace' = trace \o r.calls
         /\ stderr' = stderr \o r.msg
         /\ IF r.ok
            THEN /\ pc' = "clone_file_cifs"
                 /\ UNCHANGED ret
            ELSE /\ ret' = <<1>>
                 /\ pc' = "err_dst_close"
    /\ UNCHANGED <<argc, fs, fs0, srcFs, dstFs, src_fd, dst_fd, dst_path,
                   dst_existed, exit, heap, uaf, envCreated>>

(* clone_file_cifs, lines 65-76, and main's lines 179-182.                 *)

\* The values ioctl(CIFS_IOC_COPYCHUNK_FILE) returns: 0, or -1 with errno.
IoctlResults == {0 - 1, 0}

clone_file_cifs(ioctlRet) == IF ioctlRet # 0 THEN 0 - 1 ELSE ioctlRet

\* Mutant: the result of clone_file_cifs is ignored.
AfterClone_IgnoreFailure(r) == "unlink"

\* main, lines 179-182: where main continues on clone_file_cifs' result.
AfterClone(r) == IF r # 0 THEN "err_dst_close" ELSE "unlink"

Clone ==
    /\ pc = "clone_file_cifs"
    /\ \E ioctlRet \in IoctlResults :
         LET r == clone_file_cifs(ioctlRet) IN
         /\ trace' = Append(trace, Sys("ioctl", dst_path, ioctlRet = 0))
         /\ fs' = IF ioctlRet = 0
                  THEN [fs EXCEPT ![dst_path] =
                           Reg(CopyChunk(fs["SRC"].data, fs[dst_path].data))]
                  ELSE fs
         /\ pc' = AfterClone(r)
         /\ IF r # 0
            THEN /\ stderr' = Append(stderr, "server-side-copy failed")
                 /\ ret' = <<1>>
            ELSE UNCHANGED <<stderr, ret>>
    /\ UNCHANGED <<argc, fs0, srcFs, dstFs, src_fd, dst_fd, dst_path,
                   dst_existed, exit, heap, uaf, envCreated>>

(* main, lines 184-189: unlink(src_file), then ret = 0.                    *)

\* Mutant: line 189 is missing.
RetAfterUnlink_NoAssign(r, ok) == r

\* main's ret after unlink: line 189 assigns 0 on success; the failure
\* branch (lines 185-186) assigns nothing.
RetAfterUnlink(r, ok) == IF ok THEN <<0>> ELSE r

\* Mutant: a failed unlink rolls the destination back.
FsAfterUnlink_Rollback(f, ok, dpath) ==
    IF ok THEN [f EXCEPT !["SRC"] = NoFile] ELSE [f EXCEPT ![dpath] = NoFile]

\* The file system after unlink(src_file): SRC is gone when it succeeded,
\* nothing changes when it failed (lines 184-187 undo nothing).
FsAfterUnlink(f, ok, dpath) == IF ok THEN [f EXCEPT !["SRC"] = NoFile] ELSE f

Unlink ==
    /\ pc = "unlink"
    /\ \E ok \in BOOLEAN :
         /\ trace' = Append(trace, Sys("unlink", "SRC", ok))
         /\ fs' = FsAfterUnlink(fs, ok, dst_path)
         /\ stderr' = IF ok THEN stderr
                      ELSE Append(stderr, "unable to remove source file")
         /\ ret' = RetAfterUnlink(ret, ok)
         /\ pc' = "err_dst_close"
    /\ UNCHANGED <<argc, fs0, srcFs, dstFs, src_fd, dst_fd, dst_path,
                   dst_existed, exit, heap, uaf, envCreated>>

(* main, lines 191-195: close(dst_fd).                                     *)

\* Mutant: the result of close is ignored.
RetAfterClose_Ignored(r, ok) == r

\* main's ret after a close: lines 193 and 199 assign 1 when close fails.
RetAfterClose(r, ok) == IF ok THEN r ELSE <<1>>

\* Mutant: a failing close is not reported.
CloseDiag_Silent(ok, which) == <<>>

\* The diagnostic of lines 194 and 200 for close on the dst or src file.
CloseDiag(ok, which) ==
    IF ok THEN <<>>
    ELSE IF which = "dst_fd" THEN <<"failed to close dst file">>
    ELSE <<"failed to close src file">>

CloseDst ==
    /\ pc = "err_dst_close"
    /\ \E ok \in BOOLEAN :
         /\ trace' = Append(trace, Sys("close", "dst_fd", ok))
         /\ dst_fd' = "closed"
         /\ ret' = RetAfterClose(ret, ok)
         /\ stderr' = stderr \o CloseDiag(ok, "dst_fd")
         /\ pc' = "err_src_close"
    /\ UNCHANGED <<argc, fs, fs0, srcFs, dstFs, src_fd, dst_path,
                   dst_existed, exit, heap, uaf, envCreated>>

(* main, lines 197-201: close(src_fd).                                     *)

CloseSrc ==
    /\ pc = "err_src_close"
    /\ \E ok \in BOOLEAN :
         /\ trace' = Append(trace, Sys("close", "src_fd", ok))
         /\ src_fd' = "closed"
         /\ ret' = RetAfterClose(ret, ok)
         /\ stderr' = stderr \o CloseDiag(ok, "src_fd")
         /\ pc' = "err_out"
    /\ UNCHANGED <<argc, fs, fs0, srcFs, dstFs, dst_fd, dst_path,
                   dst_existed, exit, heap, uaf, envCreated>>

(* main, lines 203-206: the two frees and return ret.                      *)

\* free(p): NULL stays NULL, a live buffer becomes freed.
Free(h) == IF h = "live" THEN "freed" ELSE h

\* The value return ret yields: ret when it was assigned, else whatever the
\* uninitialized variable happens to hold.
ReturnValue(r, garbage) == IF r = <<>> THEN garbage ELSE r[1]

ErrOut ==
    /\ pc = "err_out"
    /\ heap' = [heap EXCEPT !.src_file = Free(heap.src_file),
                            !.dst_file = Free(heap.dst_file)]
    /\ \E garbage \in 0..MaxUninit : exit' = <<ReturnValue(ret, garbage)>>
    /\ pc' = "done"
    /\ UNCHANGED <<argc, fs, fs0, srcFs, dstFs, src_fd, dst_fd, dst_path,
                   dst_existed, ret, uaf, trace, stderr, envCreated>>

----------------------------------------------------------------------------

Next ==
    \/ CheckArgs
    \/ OpenSrc
    \/ OpenDestStat
    \/ CreateDst
    \/ CreateNewDst
    \/ EnvCreateDst
    \/ CheckIsCifs
    \/ Clone
    \/ Unlink
    \/ CloseDst
    \/ CloseSrc
    \/ ErrOut

Spec == Init /\ [][Next]_vars

TypeOK ==
    /\ pc \in {"start", "open_src", "open_dest", "create_dst", "create_new_dst",
               "check_is_cifs", "clone_file_cifs", "unlink", "err_dst_close",
               "err_src_close", "err_out", "done"}
    /\ argc \in 1..MaxArgc
    /\ fs \in [Paths -> [kind : {"none", "reg", "dir"}, data : Seq(Bytes)]]
    /\ src_fd \in {"uninit", "fail", "open", "closed"}
    /\ dst_fd \in {"uninit", "fail", "open", "closed"}
    /\ dst_path \in {"none", "DST", "NEWDST"}
    /\ dst_existed \in BOOLEAN
    /\ ret \in {<<>>, <<0>>, <<1>>}
    /\ Len(exit) <= 1
    /\ uaf \in BOOLEAN
    /\ envCreated \subseteq Paths

----------------------------------------------------------------------------
(* Properties *)

Issued(call) == \E i \in DOMAIN trace : trace[i].call = call

IssuedOn(call, arg) ==
    \E i \in DOMAIN trace : trace[i].call = call /\ trace[i].arg = arg

Succeeded(call) == \E i \in DOMAIN trace : trace[i].call = call /\ trace[i].ok

FailedOn(call, arg) ==
    \E i \in DOMAIN trace :
        trace[i].call = call /\ trace[i].arg = arg /\ ~trace[i].ok

\* The two file system types the tool supports.
Supported(t) == t \in {CIFS_SUPER_MAGIC, SMB2_SUPER_MAGIC}

FailedCall(call) == \E i \in DOMAIN trace : trace[i].call = call /\ ~trace[i].ok

Done == pc = "done"

\* C1: unlink(SRC) is issued only after the clone ioctl has returned
\* success earlier in the same run; as long as no clone has succeeded the
\* source file is as it was at the start.
C1_UnlinkOnlyAfterClone ==
    /\ \A i \in DOMAIN trace :
          trace[i].call = "unlink" =>
             \E j \in 1..(i - 1) : trace[j].call = "ioctl" /\ trace[j].ok
    /\ (~Succeeded("ioctl") => fs["SRC"] = fs0["SRC"])

C1_Witness == Done /\ Succeeded("ioctl") /\ Succeeded("unlink") /\ ~Exists(fs, "SRC")

\* C2: when DST is an existing non-directory at the time open_dest stats
\* it, no handle to DST is opened, neither the clone ioctl nor unlink is
\* issued, no file changes, and the exit status is 1.
C2_RefuseExistingFile ==
    (Issued("stat") /\ fs0["DST"].kind = "reg") =>
        /\ dst_fd \in {"uninit", "fail"}
        /\ dst_path = "none"
        /\ ~IssuedOn("open", "DST") /\ ~IssuedOn("open", "NEWDST")
        /\ ~Issued("ioctl") /\ ~Issued("unlink")
        /\ fs = fs0
        /\ (Done => exit = <<1>>)

C2_Witness ==
    /\ Done /\ Succeeded("stat") /\ fs0["DST"].kind = "reg"
    /\ \E i \in DOMAIN stderr : stderr[i] = "refusing to overwrite"

\* C3 (as claimed): a file another client creates at DST between
\* open_dest's stat and its open is never opened by the run, so it is never
\* the target of the clone.
C3_ExclusiveCreate ==
    "DST" \in envCreated => (dst_fd \in {"uninit", "fail"} /\ ~IssuedOn("ioctl", "DST"))

\* C4 (as claimed): when DST is a directory and DST/basename(SRC) is an
\* existing regular file at the start, the run fails, and the clone ioctl
\* is never issued on that file.
C4_NoOverwriteInDirectory ==
    (fs0["DST"].kind = "dir" /\ fs0["NEWDST"].kind = "reg") =>
        /\ ~IssuedOn("ioctl", "NEWDST")
        /\ fs["NEWDST"] = fs0["NEWDST"]
        /\ (Done => exit = <<1>>)

\* Every system call of the run succeeded, the stat of the absent DST
\* (ENOENT) aside.
AllCallsSucceeded ==
    \A i \in DOMAIN trace :
        trace[i].ok \/ (trace[i].call = "stat" /\ trace[i].enoent)

\* C5: a run with two arguments, SRC an existing file, DST absent (and not
\* created by anyone else during the run), both mounts CIFS or SMB2 and
\* every system call successful ends with DST holding exactly SRC's
\* original content, SRC gone and exit status 0.
C5_MoveSucceeds ==
    ( /\ Done
      /\ argc = 3
      /\ fs0["SRC"].kind = "reg"
      /\ ~Exists(fs0, "DST")
      /\ envCreated = {}
      /\ Supported(srcFs) /\ Supported(dstFs)
      /\ AllCallsSucceeded )
    => /\ fs["DST"] = Reg(fs0["SRC"].data)
       /\ ~Exists(fs, "SRC")
       /\ exit = <<0>>

C5_Witness ==
    /\ Done /\ argc = 3 /\ ~Exists(fs0, "DST") /\ envCreated = {}
    /\ AllCallsSucceeded
    /\ Len(fs0["SRC"].data) > 0
    /\ fs["DST"] = Reg(fs0["SRC"].data)
    /\ exit = <<0>>

\* check_is_cifs was reached and one of its fstatfs calls failed or
\* reported a type other than CIFS or SMB2.
ValidationRejected ==
    \E i \in DOMAIN trace :
        /\ trace[i].call = "fstatfs"
        /\ \/ ~trace[i].ok
           \/ ~Supported(IF trace[i].arg = "src_fd" THEN srcFs ELSE dstFs)

\* C6 (as claimed): when the validation rejects a handle, the clone ioctl
\* and unlink are never issued, the exit status is 1, and the file system
\* at exit equals the one at the start.
C6_UnsupportedLeavesAllUntouched ==
    ValidationRejected =>
        /\ ~Issued("ioctl") /\ ~Issued("unlink")
        /\ fs = fs0
        /\ (Done => exit = <<1>>)

\* C6 (amended): when the validation rejects a handle, the clone ioctl and
\* unlink are never issued, the exit status is 1, and every file that
\* existed at the start is unmodified; the only new file can be the
\* destination open_dest opened, which is empty unless another client
\* created it.
C6_UnsupportedLeavesExistingUntouched ==
    ValidationRejected =>
        /\ ~Issued("ioctl") /\ ~Issued("unlink")
        /\ \A p \in Paths : Exists(fs0, p) => fs[p] = fs0[p]
        /\ \A p \in Paths :
              (~Exists(fs0, p) /\ Exists(fs, p)) =>
                 /\ p = dst_path
                 /\ (p \notin envCreated => fs[p] = Reg(<<>>))
        /\ (Done => exit = <<1>>)

C6_Witness ==
    /\ Done /\ ValidationRejected /\ exit = <<1>>
    /\ ~Exists(fs0, "DST") /\ fs["DST"] = Reg(<<>>)
    /\ ~Supported(dstFs) /\ Supported(srcFs)

\* C7: when open(SRC) fails, that open is the only system call of the run
\* (no stat, create, clone, unlink or close), no file changes, no
\* destination handle exists, and the exit status is 1.
C7_OpenSrcFailureNoEffect ==
    FailedOn("open", "SRC") =>
        /\ Len(trace) = 1
        /\ fs = fs0
        /\ dst_fd = "uninit" /\ dst_path = "none"
        /\ (Done => exit = <<1>>)

C7_Witness ==
    /\ Done /\ ~Exists(fs0, "SRC") /\ ~Exists(fs0, "DST")
    /\ trace = <<Sys("open", "SRC", FALSE)>>
    /\ exit = <<1>>

\* C8 (as claimed): when the argument count is not two (argc # 3) the exit
\* status is 1.
C8_UsageExitsOne == (Done /\ argc # 3) => exit = <<1>>

\* C9: when the argument count is not two, the run prints the usage
\* message and issues no system call on any file: the trace stays empty
\* and the file system unchanged.
C9_UsageNoFileOperation ==
    argc # 3 =>
        /\ trace = <<>>
        /\ fs = fs0
        /\ src_fd = "uninit" /\ dst_fd = "uninit"
        /\ (pc # "start" => stderr = <<"Usage">>)

C9_Witness == Done /\ argc = 4 /\ stderr = <<"Usage">> /\ trace = <<>>

\* C10 (as claimed): when the clone succeeded and unlink(SRC) failed, the
\* exit status is 1, whatever the closes do.
C10_UnlinkFailureExitsOne ==
    (Done /\ Succeeded("ioctl") /\ FailedCall("unlink")) => exit = <<1>>

\* The destination descriptor was opened (on DST or on DST/basename(SRC)).
DstOpened ==
    \E i \in DOMAIN trace :
        trace[i].call = "open" /\ trace[i].arg \in {"DST", "NEWDST"} /\ trace[i].ok

SrcOpened == \E i \in DOMAIN trace : trace[i] = Sys("open", "SRC", TRUE)

\* open_dest returned -1: stat failed, the overwrite was refused or the
\* open of the destination failed.
OpenDestFailed ==
    \/ \E i \in DOMAIN trace :
          trace[i].call = "stat" /\ ~trace[i].ok /\ ~trace[i].enoent
    \/ \E i \in DOMAIN stderr : stderr[i] = "refusing to overwrite"
    \/ FailedOn("open", "DST") \/ FailedOn("open", "NEWDST")

CountCalls(call, arg) ==
    Cardinality({i \in DOMAIN trace : trace[i].call = call /\ trace[i].arg = arg})

\* A failure of open source, open destination, validation or clone is
\* followed by neither clone nor unlink, and the run exits with 1.
FailureShortCircuits ==
    /\ (FailedOn("open", "SRC") \/ OpenDestFailed \/ ValidationRejected) =>
          (~Issued("ioctl") /\ ~Issued("unlink"))
    /\ FailedCall("ioctl") => ~Issued("unlink")
    /\ ( /\ Done
         /\ \/ FailedOn("open", "SRC") \/ OpenDestFailed
            \/ ValidationRejected \/ FailedCall("ioctl") )
       => exit = <<1>>

\* Exit status 0 is returned only when open, resolve, validate, clone,
\* unlink and both closes all succeeded.
ZeroOnlyOnFullSuccess ==
    (Done /\ exit = <<0>>) =>
        /\ SrcOpened /\ DstOpened
        /\ ~ValidationRejected
        /\ Succeeded("ioctl") /\ Succeeded("unlink")
        /\ trace[Len(trace) - 1] = Sys("close", "dst_fd", TRUE)
        /\ trace[Len(trace)] = Sys("close", "src_fd", TRUE)

\* C11 (as claimed): a failure of open source, open destination, validation
\* or clone short-circuits the sequence (no later clone or unlink) and
\* yields exit status 1; exit status 0 is returned only when open, resolve,
\* validate, clone, unlink and both closes all succeeded.
C11_ShortCircuitAndZeroOnlyOnSuccess ==
    FailureShortCircuits /\ ZeroOnlyOnFullSuccess

\* C12: a descriptor is closed at most once and only after its successful
\* open, and at exit every descriptor that was opened has been closed
\* exactly once.
C12_ClosedExactlyOnce ==
    /\ CountCalls("close", "src_fd") <= 1
    /\ CountCalls("close", "dst_fd") <= 1
    /\ \A i \in DOMAIN trace :
          trace[i].call = "close" =>
             \E j \in 1..(i - 1) :
                /\ trace[j].call = "open" /\ trace[j].ok
                /\ IF trace[i].arg = "src_fd" THEN trace[j].arg = "SRC"
                   ELSE trace[j].arg \in {"DST", "NEWDST"}
    /\ Done =>
          /\ (SrcOpened => CountCalls("close", "src_fd") = 1)
          /\ (DstOpened => CountCalls("close", "dst_fd") = 1)

C12_Witness ==
    /\ Done /\ SrcOpened /\ ~DstOpened
    /\ CountCalls("close", "src_fd") = 1 /\ CountCalls("close", "dst_fd") = 0

\* C13: when a close fails, on the destination or on the source, the exit
\* status is 1, also after a successful clone and unlink; and a failed
\* close of the destination is followed by the close of the source.
C13_CloseFailureExitsOne ==
    /\ (Done /\ FailedCall("close")) => exit = <<1>>
    /\ \A i \in DOMAIN trace :
          (trace[i] = Sys("close", "dst_fd", FALSE) /\ pc # "err_src_close") =>
             (i < Len(trace) /\ trace[i + 1].call = "close"
                             /\ trace[i + 1].arg = "src_fd")

C13_Witness ==
    /\ Done /\ Succeeded("ioctl") /\ Succeeded("unlink")
    /\ FailedOn("close", "dst_fd")
    /\ trace[Len(trace)] = Sys("close", "src_fd", TRUE)
    /\ exit = <<1>>

\* C14: once the clone has succeeded and unlink(SRC) has failed nothing is
\* rolled back: SRC is still what it was at the start and the destination
\* is still a regular file holding the cloned content (SRC's content from
\* offset 0; exactly SRC's content when the run created the destination).
C14_NoRollback ==
    (Succeeded("ioctl") /\ FailedCall("unlink")) =>
        /\ fs["SRC"] = fs0["SRC"] /\ fs["SRC"].kind = "reg"
        /\ fs[dst_path].kind = "reg"
        /\ Len(fs[dst_path].data) >= Len(fs0["SRC"].data)
        /\ SubSeq(fs[dst_path].data, 1, Len(fs0["SRC"].data)) = fs0["SRC"].data
        /\ (~dst_existed => fs[dst_path] = fs0["SRC"])
        /\ (dst_path = "NEWDST" =>
               fs["NEWDST"].data = CopyChunk(fs0["SRC"].data, fs0["NEWDST"].data))

C14_Witness ==
    /\ Done /\ Succeeded("ioctl") /\ FailedCall("unlink")
    /\ dst_path = "DST" /\ ~dst_existed
    /\ Len(fs0["SRC"].data) > 0
    /\ fs["DST"] = fs["SRC"]

Diag(msg) == \E i \in DOMAIN stderr : stderr[i] = msg

\* C15: every failure has its diagnostic on standard error as soon as it
\* has happened: bad usage, open of the source, stat or create of the
\* destination, the refusal to overwrite, each fstatfs failure and each
\* type mismatch, the clone, the unlink and either close.
C15_EveryErrorSurfaced ==
    /\ (argc # 3 /\ pc # "start") => Diag("Usage")
    /\ FailedOn("open", "SRC") => Diag("failed to open")
    /\ (\E i \in DOMAIN trace :
           trace[i].call = "stat" /\ ~trace[i].ok /\ ~trace[i].enoent)
          => Diag("failed to create")
    /\ FailedOn("open", "DST") => Diag("failed to create")
    /\ FailedOn("open", "NEWDST") => \E d \in FreedPathDiags : Diag(d)
    /\ (Succeeded("stat") /\ fs0["DST"].kind = "reg") => Diag("refusing to overwrite")
    /\ FailedOn("fstatfs", "src_fd") => Diag("failed to stat source file system")
    /\ (IssuedOn("fstatfs", "src_fd") /\ ~FailedOn("fstatfs", "src_fd")
          /\ ~Supported(srcFs)) => Diag("source file system is not CIFS/SMB2!")
    /\ FailedOn("fstatfs", "dst_fd") => Diag("failed to stat destination file system")
    /\ (IssuedOn("fstatfs", "dst_fd") /\ ~FailedOn("fstatfs", "dst_fd")
          /\ ~Supported(dstFs)) => Diag("destination file system is not CIFS/SMB2!")
    /\ FailedCall("ioctl") => Diag("server-side-copy failed")
    /\ FailedCall("unlink") => Diag("unable to remove source file")
    /\ FailedOn("close", "dst_fd") => Diag("failed to close dst file")
    /\ FailedOn("close", "src_fd") => Diag("failed to close src file")

C15_Witness ==
    /\ Done /\ FailedCall("unlink") /\ FailedOn("close", "src_fd")
    /\ ~FailedOn("close", "dst_fd")
    /\ stderr = <<"unable to remove source file", "failed to close src file">>

\* The position of a system call in the sequence open source (1),
\* resolve/open destination (2), validate (3), clone (4), unlink (5),
\* close both (6).
StepRank(e) ==
    CASE e.call = "open" /\ e.arg = "SRC" -> 1
      [] e.call = "stat" -> 2
      [] e.call = "open" /\ e.arg # "SRC" -> 2
      [] e.call = "fstatfs" -> 3
      [] e.call = "ioctl" -> 4
      [] e.call = "unlink" -> 5
      [] OTHER -> 6

\* A call that let the sequence go on: it succeeded, or it is the stat that
\* found DST absent.
StepOk(e) == e.ok \/ (e.call = "stat" /\ e.enoent)

StepsInOrder ==
    \A i \in DOMAIN trace : \A j \in DOMAIN trace :
        i < j => StepRank(trace[i]) <= StepRank(trace[j])

StepsAtMostOnce ==
    /\ \A i \in DOMAIN trace : \A j \in DOMAIN trace :
          (trace[i].call = trace[j].call /\ trace[i].arg = trace[j].arg) => i = j
    /\ ~(IssuedOn("open", "DST") /\ IssuedOn("open", "NEWDST"))
    /\ Cardinality({i \in DOMAIN trace : trace[i].call = "ioctl"}) <= 1

\* Every call of a step up to rank maxRank was issued only after all calls
\* before it had gone well: a step past the resolution had a destination
\* opened, the destination's fstatfs and every later step had the source's
\* type accepted, and every step past the validation had both accepted.
StepsOnlyAfterSuccess(maxRank) ==
    \A j \in DOMAIN trace :
        StepRank(trace[j]) <= maxRank =>
            /\ \A i \in 1..(j - 1) : StepOk(trace[i])
            /\ (StepRank(trace[j]) >= 3 =>
                   \E i \in 1..(j - 1) :
                       trace[i].call = "open" /\ trace[i].arg # "SRC" /\ trace[i].ok)
            /\ ((StepRank(trace[j]) >= 4 \/ trace[j].arg = "dst_fd")
                   => Supported(srcFs))
            /\ (StepRank(trace[j]) >= 4 => Supported(dstFs))

\* The clone ioctl comes after a successful fstatfs of both handles, each
\* on a supported type.
CloneAfterValidation ==
    \A j \in DOMAIN trace :
        trace[j].call = "ioctl" =>
            /\ \E i \in 1..(j - 1) : trace[i] = Sys("fstatfs", "src_fd", TRUE)
            /\ \E i \in 1..(j - 1) : trace[i] = Sys("fstatfs", "dst_fd", TRUE)
            /\ Supported(srcFs) /\ Supported(dstFs)

\* C16 (as claimed): the steps occur at most once each and in the order
\* open source, open destination, validate, clone, unlink, close both, and
\* each step, the closes included, runs only if every earlier step
\* succeeded; the clone is issued at most once and only after validation.
C16_LinearAllStepsAfterSuccess ==
    /\ StepsInOrder
    /\ StepsAtMostOnce
    /\ StepsOnlyAfterSuccess(6)
    /\ CloneAfterValidation

\* C16 (amended): the steps occur at most once each and in that order, and
\* each step up to the unlink runs only if every earlier step succeeded;
\* the clone is issued at most once and only after both handles passed
\* validation. (The closes also run after a failed step.)
C16_LinearForwardStepsAfterSuccess ==
    /\ StepsInOrder
    /\ StepsAtMostOnce
    /\ StepsOnlyAfterSuccess(5)
    /\ CloneAfterValidation

C16_Witness ==
    /\ Done
    /\ Len(trace) = 9
    /\ \A i \in DOMAIN trace : StepOk(trace[i])
    /\ trace[6].call = "ioctl" /\ trace[7].call = "unlink"

\* check_is_cifs returned true: main went on to the clone.
CheckPassed == pc = "clone_file_cifs" \/ Issued("ioctl")

ValidationDiags ==
    {"failed to stat source file system", "source file system is not CIFS/SMB2!",
     "failed to stat destination file system",
     "destination file system is not CIFS/SMB2!"}

\* The message that names the side and the check that failed first, the
\* source being checked before the destination.
ExpectedValidationDiag ==
    IF FailedOn("fstatfs", "src_fd") THEN "failed to stat source file system"
    ELSE IF ~Supported(srcFs) THEN "source file system is not CIFS/SMB2!"
    ELSE IF FailedOn("fstatfs", "dst_fd") THEN "failed to stat destination file system"
    ELSE "destination file system is not CIFS/SMB2!"

\* C17: check_is_cifs returns true if and only if fstatfs succeeded on both
\* handles and both f_types are CIFS_SUPER_MAGIC or SMB2_SUPER_MAGIC; when it
\* returns false it has printed exactly the message naming the side whose
\* check failed, the source being checked first (the destination is not
\* queried when the source fails).
C17_CheckIsCifsIff ==
    Issued("fstatfs") =>
        /\ CheckPassed <=>
              ( /\ \E i \in DOMAIN trace : trace[i] = Sys("fstatfs", "src_fd", TRUE)
                /\ \E i \in DOMAIN trace : trace[i] = Sys("fstatfs", "dst_fd", TRUE)
                /\ Supported(srcFs) /\ Supported(dstFs) )
        /\ {stderr[i] : i \in DOMAIN stderr} \cap ValidationDiags =
              IF CheckPassed THEN {} ELSE {ExpectedValidationDiag}
        /\ \A j \in DOMAIN trace :
              (trace[j].call = "fstatfs" /\ trace[j].arg = "dst_fd") =>
                 (j > 1 /\ trace[j - 1] = Sys("fstatfs", "src_fd", TRUE)
                        /\ Supported(srcFs))

C17_Witness ==
    /\ pc = "err_dst_close"
    /\ srcFs = SMB2_SUPER_MAGIC /\ dstFs = OTHER_SUPER_MAGIC
    /\ trace[Len(trace)] = Sys("fstatfs", "dst_fd", TRUE)
    /\ Diag("destination file system is not CIFS/SMB2!")

\* C18 (as claimed): no heap buffer is read after it has been freed, and
\* no buffer is freed twice: src_file and dst_file are still unfreed when
\* err_out frees them.
C18_NoUseAfterFree ==
    /\ ~uaf
    /\ (pc = "err_out" => heap.src_file # "freed" /\ heap.dst_file # "freed")

====
